---- MODULE Spec2Model ----
(***************************************************************************)
(* LinkedinTokenStrategy (lib/passport-linkedin-token-oauth2/strategy.js)  *)
(* as a state machine: one request travelling through authenticate,        *)
(* _loadUserProfile, userProfile and the callbacks they register.          *)
(* The collaborators (skip predicate, OAuth2 get, verify callback) are the *)
(* environment: their answers are chosen by \E in the action that receives *)
(* them.                                                                   *)
(***************************************************************************)
EXTENDS Integers, Sequences, FiniteSets, TLC

VARIABLES req, cfg, pc, accessToken, refreshToken, profileBody, tokenName, events, thrown

vars == <<req, cfg, pc, accessToken, refreshToken, profileBody, tokenName, events, thrown>>

---------------------------------------------------------------------------
(* JavaScript values.  Every value is a record tagged by its type in t.    *)

Undefined == [t |-> "undefined"]
Null == [t |-> "null"]
Bool(b) == [t |-> "boolean", b |-> b]
Str(s) == [t |-> "string", s |-> s]
Obj(f) == [t |-> "object", f |-> f]
Fn(arity) == [t |-> "function", length |-> arity]

\* ToBoolean: what `if (v)`, `!v` and `a || b` test.
Truthy(v) ==
  CASE v.t = "undefined" -> FALSE
    [] v.t = "null" -> FALSE
    [] v.t = "boolean" -> v.b
    [] v.t = "string" -> v.s # ""
    [] OTHER -> TRUE

\* a || b
Or(a, b) == IF Truthy(a) THEN a ELSE b

\* o.k : reading a property of undefined or null throws a TypeError, an
\* absent key reads as undefined.
CanRead(o) == o.t \notin {"undefined", "null"}
Get(o, k) == IF o.t = "object" /\ k \in DOMAIN o.f THEN o.f[k] ELSE Undefined

TypeError == [t |-> "error", name |-> "TypeError"]
SyntaxError == [t |-> "error", name |-> "SyntaxError"]
\* new InternalOAuthError(message, err)
InternalOAuthError(message, err) ==
  [t |-> "error", name |-> "InternalOAuthError", message |-> message, oauthError |-> err]

---------------------------------------------------------------------------
(* The request.  body, query and headers are each absent (undefined) or an *)
(* object; an access token field is absent, the empty string, or a token   *)
(* that names the place it was sent in, so that the source of a resolved   *)
(* token shows; a refresh token field is absent or such a token.           *)

FieldValues(tok) == {Undefined, Str(""), Str(tok)}
RefreshValues(tok) == {Undefined, Str(tok)}

Bodies ==
  {Undefined} \cup
  {Obj([access_token |-> a, refresh_token |-> r]) :
     a \in FieldValues("at-body"), r \in RefreshValues("rt-body")}

Queries ==
  {Undefined} \cup
  {Obj([error |-> e, access_token |-> a, refresh_token |-> r]) :
     e \in {Undefined, Str("access_denied")},
     a \in FieldValues("at-query"), r \in RefreshValues("rt-query")}

Headers ==
  {Undefined} \cup
  {Obj([access_token |-> a, refresh_token |-> r]) :
     a \in FieldValues("at-header"), r \in RefreshValues("rt-header")}

Requests == [body : Bodies, query : Queries, headers : Headers]

---------------------------------------------------------------------------
(* Upstream documents.  A response body is a string that JSON.parse either *)
(* turns into a document or rejects with a SyntaxError.                    *)

Arr(a) == [t |-> "array", a |-> a]
Body(doc) == [t |-> "string", parses |-> TRUE, json |-> doc]
MalformedBody == [t |-> "string", parses |-> FALSE]

\* JSON.parse(body)
ParseThrows(body) == ~body.parses
JSONParse(body) == body.json

\* String(v), as `+` applies it to an operand that is not a string.
ToStr(v) ==
  CASE v.t = "string" -> v.s
    [] v.t = "undefined" -> "undefined"
    [] v.t = "null" -> "null"
    [] OTHER -> "[object Object]"

\* getLocalizedName(name): name.localized[language + '_' + country].
\* It throws a TypeError when name, name.localized or name.preferredLocale
\* cannot be read; a key that is not in the mapping reads as undefined.
getLocalizedNameThrows(name) ==
  \/ ~CanRead(name)
  \/ ~CanRead(Get(name, "preferredLocale"))
  \/ ~CanRead(Get(name, "localized"))

LocaleKey(name) ==
  ToStr(Get(Get(name, "preferredLocale"), "language")) \o "_" \o
  ToStr(Get(Get(name, "preferredLocale"), "country"))

\* getLocalizedName, were en_US the fallback of a locale without a value.
getLocalizedNameFallback(name) ==
  Or(Get(Get(name, "localized"), LocaleKey(name)), Get(Get(name, "localized"), "en_US"))

getLocalizedName(name) == Get(Get(name, "localized"), LocaleKey(name))

\* rec with key set to val (profile.key = val)
With(rec, key, val) == [k \in DOMAIN rec \cup {key} |-> IF k = key THEN val ELSE rec[k]]

\* The reducer of addEmails over emailJson.elements.
RECURSIVE ReduceEmails(_)
ReduceEmails(els) ==
  IF els = <<>> THEN <<>>
  ELSE LET el == Head(els)
           h == Get(el, "handle~")
       IN (IF Truthy(h) /\ Truthy(Get(h, "emailAddress"))
           THEN <<Obj([value |-> Get(h, "emailAddress")])>>
           ELSE <<>>) \o ReduceEmails(Tail(els))

\* addEmails, were the field set only when an address was found.
addEmailsWhenFound(profile, emailJson) ==
  IF Truthy(Get(emailJson, "elements")) /\ ReduceEmails(Get(emailJson, "elements").a) # <<>>
  THEN With(profile, "emails", Arr(ReduceEmails(Get(emailJson, "elements").a)))
  ELSE profile

\* addEmails(profile, emailJson)
addEmails(profile, emailJson) ==
  IF Truthy(Get(emailJson, "elements"))
  THEN With(profile, "emails", Arr(ReduceEmails(Get(emailJson, "elements").a)))
  ELSE profile

\* The reducer of addPhotos, were only the first element looked at.
ReducePhotosFirstOnly(els) ==
  IF els = <<>> THEN <<>>
  ELSE LET el == Head(els)
           ids == Get(el, "identifiers")
       IN IF Truthy(el) /\ Truthy(ids) /\ Len(ids.a) > 0
          THEN <<Obj([value |-> Get(ids.a[1], "identifier")])>>
          ELSE <<>>

\* The reducer of addPhotos over profilePicture['displayImage~'].elements.
RECURSIVE ReducePhotos(_)
ReducePhotos(els) ==
  IF els = <<>> THEN <<>>
  ELSE LET el == Head(els)
           ids == Get(el, "identifiers")
       IN (IF Truthy(el) /\ Truthy(ids) /\ Len(ids.a) > 0
           THEN <<Obj([value |-> Get(ids.a[1], "identifier")])>>
           ELSE <<>>) \o ReducePhotos(Tail(els))

\* addPhotos, were the test of the list's length left out.
addPhotosNoLength(profile, profileJson) ==
  LET pic == Get(profileJson, "profilePicture")
      img == Get(pic, "displayImage~")
      els == Get(img, "elements")
  IN IF Truthy(pic) /\ Truthy(img) /\ Truthy(els)
     THEN With(profile, "photos", Arr(ReducePhotos(els.a)))
     ELSE profile

\* addPhotos(profile, profileJson)
addPhotos(profile, profileJson) ==
  LET pic == Get(profileJson, "profilePicture")
      img == Get(pic, "displayImage~")
      els == Get(img, "elements")
  IN IF Truthy(pic) /\ Truthy(img) /\ Truthy(els) /\ Len(els.a) > 0
     THEN With(profile, "photos", Arr(ReducePhotos(els.a)))
     ELSE profile

\* The body of the try block of userProfile up to the call of done: does it
\* throw, and with what; and the profile it builds when it does not.
BuildThrows(pBody, eBody) ==
  \/ ParseThrows(pBody)
  \/ ParseThrows(eBody)
  \/ getLocalizedNameThrows(Get(JSONParse(pBody), "lastName"))
  \/ getLocalizedNameThrows(Get(JSONParse(pBody), "firstName"))

BuildError(pBody, eBody) ==
  IF ParseThrows(pBody) \/ ParseThrows(eBody) THEN SyntaxError ELSE TypeError

\* BuildProfile, were displayName put together family name first.
BuildProfileFamilyFirst(pBody, eBody) ==
  LET profileJson == JSONParse(pBody)
      emailJson == JSONParse(eBody)
      familyName == getLocalizedName(Get(profileJson, "lastName"))
      givenName == getLocalizedName(Get(profileJson, "firstName"))
      p0 == [provider |-> Str("linkedin"),
             id |-> Get(profileJson, "id"),
             name |-> Obj([familyName |-> familyName, givenName |-> givenName]),
             displayName |-> Str(ToStr(familyName) \o " " \o ToStr(givenName))]
      p1 == addEmails(p0, emailJson)
      p2 == addPhotos(p1, profileJson)
      p3 == With(p2, "_raw", pBody)
  IN Obj(With(p3, "_json", profileJson))

BuildProfile(pBody, eBody) ==
  LET profileJson == JSONParse(pBody)
      emailJson == JSONParse(eBody)
      familyName == getLocalizedName(Get(profileJson, "lastName"))
      givenName == getLocalizedName(Get(profileJson, "firstName"))
      p0 == [provider |-> Str("linkedin"),
             id |-> Get(profileJson, "id"),
             name |-> Obj([familyName |-> familyName, givenName |-> givenName]),
             displayName |-> Str(ToStr(givenName) \o " " \o ToStr(familyName))]
      p1 == addEmails(p0, emailJson)
      p2 == addPhotos(p1, profileJson)
      p3 == With(p2, "_raw", pBody)
  IN Obj(With(p3, "_json", profileJson))

---------------------------------------------------------------------------
(* Configuration and collaborators.                                        *)

ProfileUrl == "https://api.linkedin.com/v2/me?projection=(id,firstName,lastName,profilePicture(displayImage~:playableStreams))"
EmailUrl == "https://api.linkedin.com/v2/emailAddress?q=members&projection=(elements*(handle~))"
LinkedinTokenName == "oauth2_access_token"

\* options.skipUserProfile: a boolean, a predicate of fewer than two
\* parameters, or a predicate of two; options.passReqToCallback.
Configs ==
  [skipUserProfile : {Bool(FALSE), Bool(TRUE), Fn(1), Fn(2)},
   passReqToCallback : {Undefined, Bool(TRUE)}]

\* What a synchronous skip predicate returns, what an asynchronous one
\* calls back with.
SkipError == [t |-> "error", name |-> "Error", message |-> "skip predicate failed"]
SkipReturns == {Bool(FALSE), Bool(TRUE)}
SkipAnswers == {<<Null, Bool(FALSE)>>, <<Null, Bool(TRUE)>>, <<SkipError>>}

\* What the OAuth2 get calls back with: (err, body, res).
TransportError == [t |-> "error", name |-> "Error", statusCode |-> 401]
EmptyObject == Obj([k \in {} |-> Undefined])
Locale(language, country) == Obj([language |-> Str(language), country |-> Str(country)])
TinaProfile ==
  Obj([id |-> Str("42"),
       firstName |-> Obj([localized |-> Obj([en_US |-> Str("Tina")]),
                          preferredLocale |-> Locale("en", "US")]),
       lastName |-> Obj([localized |-> Obj([en_US |-> Str("Belcher")]),
                         preferredLocale |-> Locale("en", "US")])])
OtherLocaleProfile ==
  Obj([id |-> Str("43"),
       firstName |-> Obj([localized |-> Obj([en_US |-> Str("Tina")]),
                          preferredLocale |-> Locale("fr", "FR")]),
       lastName |-> Obj([localized |-> Obj([en_US |-> Str("Belcher")]),
                         preferredLocale |-> Locale("fr", "FR")])])
ProfileBodies == {MalformedBody, Body(TinaProfile), Body(OtherLocaleProfile), Body(EmptyObject)}
TinaEmail == Obj([elements |-> Arr(<<Obj("handle~" :> Obj([emailAddress |-> Str("tina@example.com")]))>>)])
EmailBodies == {MalformedBody, Body(TinaEmail), Body(EmptyObject)}

\* The documents the normalizer is exercised on: element lists of bounded
\* length whose elements do or do not carry what the normalizer looks for.
MaxEmails == 2
MaxImages == 2
MaxIds == 2

SeqsUpTo(S, n) == UNION {[1..k -> S] : k \in 0..n}

EmailElement(address) == Obj("handle~" :> Obj([emailAddress |-> Str(address)]))
EmailElements ==
  {Obj([handle |-> Str("urn:li:emailAddress:3775708763")]),
   EmailElement(""), EmailElement("tina@example.com"), EmailElement("louise@example.com")}
NormEmailBodies ==
  {Body(EmptyObject)} \cup
  {Body(Obj([elements |-> Arr(els)])) : els \in SeqsUpTo(EmailElements, MaxEmails)}

Digit == <<"1", "2", "3", "4", "5">>
Identifier(size, k) ==
  Obj([identifier |-> Str("https://media.licdn.com/" \o size \o "/" \o Digit[k])])
ImageElement(size, n) == Obj([identifiers |-> Arr([k \in 1..n |-> Identifier(size, k)])])
ImageElements ==
  {EmptyObject} \cup {ImageElement(size, n) : size \in {"100x100", "400x400"}, n \in 0..MaxIds}
Pictures ==
  {Obj([displayImage |-> Str("urn:li:digitalmediaAsset:B54328XZFfe2134zTyq")]),
   Obj("displayImage~" :> EmptyObject)} \cup
  {Obj("displayImage~" :> Obj([elements |-> Arr(els)])) : els \in SeqsUpTo(ImageElements, MaxImages)}
MixedLocaleProfile ==
  Obj([id |-> Str("44"),
       firstName |-> Obj([localized |-> Obj([en_US |-> Str("Tina")]),
                          preferredLocale |-> Locale("en", "US")]),
       lastName |-> Obj([localized |-> Obj([en_US |-> Str("Belcher")]),
                         preferredLocale |-> Locale("de", "DE")])])
NormProfileBodies ==
  ProfileBodies \cup {Body(MixedLocaleProfile)} \cup {Body(Obj(With(TinaProfile.f, "profilePicture", pic))) : pic \in Pictures}

\* What the verify callback does when invoked: it calls verified with args
\* before returning (sync) or later (not sync), and it may throw.
AppError == [t |-> "error", name |-> "Error", message |-> "user lookup failed"]
User == Obj([id |-> Str("user-1")])
Info == Obj([scope |-> Str("r_liteprofile")])
VerifyThrown == [t |-> "error", name |-> "Error", message |-> "verify threw"]
VerifiedArgs ==
  {<<e, u>> : e \in {Null, AppError}, u \in {Bool(FALSE), User}} \cup
  {<<e, u, Info>> : e \in {Null, AppError}, u \in {Bool(FALSE), User}}
VerifyBehaviours ==
  [sync : {TRUE}, args : VerifiedArgs, throws : BOOLEAN] \cup
  [sync : {FALSE}, args : {<<>>}, throws : BOOLEAN]

---------------------------------------------------------------------------
(* Events: what the strategy did to its collaborators, in order.           *)

SkipEv(args, returned) == [ev |-> "skipUserProfile", args |-> args, returned |-> returned]
SkipAnswerEv(args) == [ev |-> "skipAnswer", args |-> args]
GetEv(url, token, name) == [ev |-> "get", url |-> url, token |-> token, tokenName |-> name]
AnswerEv(url, err) == [ev |-> "answer", url |-> url, err |-> err]
ParsedEv(profileJson, emailJson) == [ev |-> "parsed", profileJson |-> profileJson, emailJson |-> emailJson]
BuiltEv(profile) == [ev |-> "built", profile |-> profile]
DoneEv(args) == [ev |-> "done", args |-> args]
VerifyEv(args) == [ev |-> "verify", args |-> args]
VerifiedEv(args) == [ev |-> "verified", args |-> args]
SinkEv(name, args) == [ev |-> "sink", name |-> name, args |-> args]

\* The i-th argument of a call; a missing argument is undefined.
Arg(args, i) == IF i <= Len(args) THEN args[i] ELSE Undefined

---------------------------------------------------------------------------
(* The handlers, as functions from their inputs to what they do.           *)

\* verified, were the reason dropped on rejection: fail() for fail(info).
verifiedDropsInfo(args) ==
  LET err == Arg(args, 1)
      user == Arg(args, 2)
      info == Arg(args, 3)
  IN <<VerifiedEv(args)>> \o
     (IF Truthy(err) THEN <<SinkEv("error", <<err>>)>>
      ELSE IF ~Truthy(user) THEN <<SinkEv("fail", <<>>)>>
      ELSE <<SinkEv("success", <<user, info>>)>>)

\* verified, were user tested before err.
verifiedUserFirst(args) ==
  LET err == Arg(args, 1)
      user == Arg(args, 2)
      info == Arg(args, 3)
  IN <<VerifiedEv(args)>> \o
     (IF Truthy(user) THEN <<SinkEv("success", <<user, info>>)>>
      ELSE IF Truthy(err) THEN <<SinkEv("error", <<err>>)>>
      ELSE <<SinkEv("fail", <<info>>)>>)

\* verified, were a rejection reported as an error.
verifiedRejectsAsError(args) ==
  LET err == Arg(args, 1)
      user == Arg(args, 2)
      info == Arg(args, 3)
  IN <<VerifiedEv(args)>> \o
     (IF Truthy(err) THEN <<SinkEv("error", <<err>>)>>
      ELSE IF ~Truthy(user) THEN <<SinkEv("error", <<info>>)>>
      ELSE <<SinkEv("success", <<user, info>>)>>)

\* function verified(err, user, info)
verified(args) ==
  LET err == Arg(args, 1)
      user == Arg(args, 2)
      info == Arg(args, 3)
  IN <<VerifiedEv(args)>> \o
     (IF Truthy(err) THEN <<SinkEv("error", <<err>>)>>
      ELSE IF ~Truthy(user) THEN <<SinkEv("fail", <<info>>)>>
      ELSE <<SinkEv("success", <<user, info>>)>>)

\* The arguments of self._verify
VerifyArgs(r, c, at, rt, profile) ==
  IF Truthy(c.passReqToCallback)
  THEN <<r, at, rt, profile, Fn(3)>>
  ELSE <<at, rt, profile, Fn(3)>>

\* What the gate does with an error it is called back with
GateError(err) == <<SinkEv("fail", <<err>>)>>

\* The callback authenticate hands to _loadUserProfile, called with args;
\* vb is what verify does.  pending: verified is still to be called;
\* threw: verify threw out of this call.
loaded(r, c, at, rt, args, vb) ==
  LET err == Arg(args, 1)
      profile == Arg(args, 2)
  IN IF Truthy(err)
     THEN [events |-> <<DoneEv(args)>> \o GateError(err),
           pending |-> FALSE, threw |-> FALSE]
     ELSE [events |-> <<DoneEv(args), VerifyEv(VerifyArgs(r, c, at, rt, profile))>> \o
                      (IF vb.sync THEN verified(vb.args) ELSE <<>>),
           pending |-> ~vb.sync, threw |-> vb.throws]

\* skipIt, were it to pass an explicit null profile.
SkipItArgsNull == <<Null, Null>>

\* skipIt() of _loadUserProfile: the arguments it calls done with
SkipItArgs == <<Null>>

\* The callback userProfile hands to the profile get
profileWrap(err) == InternalOAuthError("failed to fetch user profile", err)
\* The callback userProfile hands to the email get
emailWrap(err) == InternalOAuthError("failed to fetch user email", err)

\* try { ... done(null, profile) } catch (e) { done(e) }
tryBuild(r, c, at, rt, pBody, eBody, vb) ==
  LET parsed == IF ParseThrows(pBody) \/ ParseThrows(eBody) THEN <<>>
                ELSE <<ParsedEv(JSONParse(pBody), JSONParse(eBody))>>
  IN IF BuildThrows(pBody, eBody)
     THEN LET caught == loaded(r, c, at, rt, <<BuildError(pBody, eBody)>>, vb)
          IN [events |-> parsed \o caught.events, pending |-> FALSE, threw |-> FALSE]
     ELSE LET profile == BuildProfile(pBody, eBody)
              first == loaded(r, c, at, rt, <<Null, profile>>, vb)
              again == loaded(r, c, at, rt, <<VerifyThrown>>, vb)
          IN IF first.threw
             THEN [events |-> parsed \o <<BuiltEv(profile)>> \o first.events \o again.events,
                   pending |-> first.pending, threw |-> FALSE]
             ELSE [events |-> parsed \o <<BuiltEv(profile)>> \o first.events,
                   pending |-> first.pending, threw |-> FALSE]

\* accessToken || req.query.access_token || req.headers.access_token
ResolveThrows(first, r, key) ==
  /\ ~Truthy(first)
  /\ \/ ~CanRead(r.query)
     \/ ~Truthy(Get(r.query, key)) /\ ~CanRead(r.headers)
\* Resolve, were the query string consulted before the body.
ResolveQueryFirst(first, r, key) == Or(Or(Get(r.query, key), first), Get(r.headers, key))
Resolve(first, r, key) == Or(Or(first, Get(r.query, key)), Get(r.headers, key))

\* if (req.body) { accessToken = req.body.access_token; ... }
FromBody(r, key) == IF Truthy(r.body) THEN Get(r.body, key) ELSE Undefined

\* Denied, were the error indicator honoured only on a request without a
\* query-string token.
DeniedUnlessToken(r) ==
  Truthy(r.query) /\ Truthy(Get(r.query, "error")) /\ ~Truthy(Get(r.query, "access_token"))

\* req.query && req.query.error
Denied(r) == Truthy(r.query) /\ Truthy(Get(r.query, "error"))

\* IsAsyncSkip, were every predicate with a parameter taken as asynchronous.
IsAsyncSkipAnyParameter(c) == c.skipUserProfile.t = "function" /\ c.skipUserProfile.length > 0

\* typeof this._skipUserProfile === 'function' && this._skipUserProfile.length > 1
IsAsyncSkip(c) == c.skipUserProfile.t = "function" /\ c.skipUserProfile.length > 1

---------------------------------------------------------------------------
(* State machine.                                                          *)

Init ==
  /\ req \in Requests
  /\ cfg \in Configs
  /\ pc = "start"
  /\ accessToken = Undefined
  /\ refreshToken = Undefined
  /\ profileBody = Undefined
  /\ tokenName = "access_token"
  /\ events = <<>>
  /\ thrown = Undefined

\* The handler returns (or throws) with nothing registered
Finish(evs, exc) ==
  /\ events' = events \o evs
  /\ pc' = "end"
  /\ thrown' = exc

\* The result of the gate's callback, called outside userProfile's try
AfterLoaded(prefix, res) ==
  /\ events' = events \o prefix \o res.events
  /\ pc' = IF res.pending THEN "verified" ELSE "end"
  /\ thrown' = IF res.threw THEN VerifyThrown ELSE Undefined

\* userProfile, were both documents requested at once.
userProfileParallel(prefix, at) ==
  /\ tokenName' = LinkedinTokenName
  /\ events' = events \o prefix \o
                <<GetEv(ProfileUrl, at, LinkedinTokenName), GetEv(EmailUrl, at, LinkedinTokenName)>>
  /\ pc' = "profile"
  /\ UNCHANGED thrown

\* userProfile, were the parameter name left as the constructor set it.
userProfileKeepsName(prefix, at) ==
  /\ tokenName' = tokenName
  /\ events' = events \o prefix \o <<GetEv(ProfileUrl, at, tokenName)>>
  /\ pc' = "profile"
  /\ UNCHANGED thrown

\* userProfile(accessToken, done) up to the first get
userProfile(prefix, at) ==
  /\ tokenName' = LinkedinTokenName
  /\ events' = events \o prefix \o <<GetEv(ProfileUrl, at, LinkedinTokenName)>>
  /\ pc' = "profile"
  /\ UNCHANGED thrown

\* _loadUserProfile(accessToken, done); ret is what a synchronous
\* predicate returns.
loadUserProfile(at, rt, ret, vb) ==
  IF IsAsyncSkip(cfg)
  THEN /\ events' = events \o <<SkipEv(<<at, Fn(2)>>, Undefined)>>
       /\ pc' = "skip"
       /\ UNCHANGED <<tokenName, thrown>>
  ELSE LET isFn == cfg.skipUserProfile.t = "function"
           skip == IF isFn THEN ret ELSE cfg.skipUserProfile
           prefix == IF isFn THEN <<SkipEv(<<>>, ret)>> ELSE <<>>
       IN IF ~Truthy(skip)
          THEN userProfile(prefix, at)
          ELSE /\ AfterLoaded(prefix, loaded(req, cfg, at, rt, SkipItArgs, vb))
               /\ UNCHANGED tokenName

\* authenticate(req, options)
Authenticate ==
  /\ pc = "start"
  /\ \E ret \in SkipReturns, vb \in VerifyBehaviours :
       LET at == Resolve(FromBody(req, "access_token"), req, "access_token")
           rt == Resolve(FromBody(req, "refresh_token"), req, "refresh_token")
       IN IF Denied(req)
          THEN /\ Finish(<<SinkEv("fail", <<>>)>>, Undefined)
               /\ UNCHANGED <<accessToken, refreshToken, tokenName>>
          ELSE IF ResolveThrows(FromBody(req, "access_token"), req, "access_token")
          THEN /\ Finish(<<>>, TypeError)
               /\ UNCHANGED <<accessToken, refreshToken, tokenName>>
          ELSE IF ResolveThrows(FromBody(req, "refresh_token"), req, "refresh_token")
          THEN /\ Finish(<<>>, TypeError)
               /\ accessToken' = at
               /\ UNCHANGED <<refreshToken, tokenName>>
          ELSE /\ accessToken' = at
               /\ refreshToken' = rt
               /\ IF ~Truthy(at)
                  THEN /\ Finish(<<SinkEv("fail", <<>>)>>, Undefined)
                       /\ UNCHANGED tokenName
                  ELSE loadUserProfile(at, rt, ret, vb)
  /\ UNCHANGED <<req, cfg, profileBody>>

\* The callback handed to an asynchronous skip predicate
SkipCallback ==
  /\ pc = "skip"
  /\ \E ans \in SkipAnswers, vb \in VerifyBehaviours :
       LET err == Arg(ans, 1)
           skip == Arg(ans, 2)
       IN IF Truthy(err)
          THEN /\ AfterLoaded(<<SkipAnswerEv(ans)>>,
                              loaded(req, cfg, accessToken, refreshToken, <<err>>, vb))
               /\ UNCHANGED tokenName
          ELSE IF ~Truthy(skip)
          THEN userProfile(<<SkipAnswerEv(ans)>>, accessToken)
          ELSE /\ AfterLoaded(<<SkipAnswerEv(ans)>>,
                              loaded(req, cfg, accessToken, refreshToken, SkipItArgs, vb))
               /\ UNCHANGED tokenName
  /\ UNCHANGED <<req, cfg, accessToken, refreshToken, profileBody>>

\* The callback handed to the get of the profile URL, the provider
\* answering with one of bodies
ProfileAnswer(bodies) ==
  /\ pc = "profile"
  /\ \E profileErr \in {Null, TransportError}, body \in bodies, vb \in VerifyBehaviours :
       IF Truthy(profileErr)
       THEN /\ AfterLoaded(<<AnswerEv(ProfileUrl, profileErr)>>,
                           loaded(req, cfg, accessToken, refreshToken, <<profileWrap(profileErr)>>, vb))
            /\ UNCHANGED profileBody
       ELSE /\ profileBody' = body
            /\ events' = events \o <<AnswerEv(ProfileUrl, profileErr), GetEv(EmailUrl, accessToken, tokenName)>>
            /\ pc' = "email"
            /\ UNCHANGED thrown
  /\ UNCHANGED <<req, cfg, accessToken, refreshToken, tokenName>>

ProfileCallback == ProfileAnswer(ProfileBodies)

\* The callback handed to the get of the email URL, the provider answering
\* with one of bodies
EmailAnswer(bodies) ==
  /\ pc = "email"
  /\ \E emailErr \in {Null, TransportError}, emailBody \in bodies, vb \in VerifyBehaviours :
       IF Truthy(emailErr)
       THEN AfterLoaded(<<AnswerEv(EmailUrl, emailErr)>>,
                        loaded(req, cfg, accessToken, refreshToken, <<emailWrap(emailErr)>>, vb))
       ELSE AfterLoaded(<<AnswerEv(EmailUrl, emailErr)>>,
                        tryBuild(req, cfg, accessToken, refreshToken, profileBody, emailBody, vb))
  /\ UNCHANGED <<req, cfg, accessToken, refreshToken, profileBody, tokenName>>

EmailCallback == EmailAnswer(EmailBodies)

\* verify calls verified after it has returned
VerifiedCallback ==
  /\ pc = "verified"
  /\ \E args \in VerifiedArgs : Finish(verified(args), thrown)
  /\ UNCHANGED <<req, cfg, accessToken, refreshToken, profileBody, tokenName>>

Next ==
  \/ Authenticate
  \/ SkipCallback
  \/ ProfileCallback
  \/ EmailCallback
  \/ VerifiedCallback

Spec == Init /\ [][Next]_vars

\* The same strategy, one request with a query-string token, the provider
\* answering with the documents above: the picture variants with the small
\* email documents, the email variants with the small profile documents.
NormRequests ==
  {r \in Requests :
     /\ r.body = Undefined
     /\ r.query = Obj([error |-> Undefined, access_token |-> Str("at-query"), refresh_token |-> Undefined])
     /\ r.headers = Obj([access_token |-> Undefined, refresh_token |-> Undefined])}
NormConfigs ==
  {c \in Configs : c.passReqToCallback = Undefined /\ c.skipUserProfile \in {Bool(FALSE), Fn(2)}}

InitNorm ==
  /\ req \in NormRequests
  /\ cfg \in NormConfigs
  /\ pc = "start"
  /\ accessToken = Undefined
  /\ refreshToken = Undefined
  /\ profileBody = Undefined
  /\ tokenName = "access_token"
  /\ events = <<>>
  /\ thrown = Undefined

NormProfileCallback == ProfileAnswer(NormProfileBodies)

NormEmailCallback ==
  EmailAnswer(IF profileBody \in ProfileBodies THEN EmailBodies \cup NormEmailBodies ELSE EmailBodies)

NextNorm ==
  \/ Authenticate
  \/ SkipCallback
  \/ NormProfileCallback
  \/ NormEmailCallback
  \/ VerifiedCallback

SpecNorm == InitNorm /\ [][NextNorm]_vars

\* The same strategy instance serving other requests meanwhile.  All a
\* request writes outside itself is the parameter name userProfile sets on
\* the shared HTTP capability; profileUrl and emailUrl are assigned in the
\* constructor only.
OtherRequest ==
  /\ tokenName' = LinkedinTokenName
  /\ UNCHANGED <<req, cfg, pc, accessToken, refreshToken, profileBody, events, thrown>>

NextShared ==
  \/ Authenticate
  \/ SkipCallback
  \/ ProfileCallback
  \/ EmailCallback
  \/ VerifiedCallback
  \/ OtherRequest

SpecShared == Init /\ [][NextShared]_vars

\* The same strategy with every collaborator responding: a started request
\* is processed, and each callback that is awaited is eventually called.
SpecLive ==
  /\ Init
  /\ [][Next]_vars
  /\ WF_vars(Authenticate)
  /\ WF_vars(SkipCallback)
  /\ WF_vars(ProfileCallback)
  /\ WF_vars(EmailCallback)
  /\ WF_vars(VerifiedCallback)

TypeOK ==
  /\ req \in Requests
  /\ cfg \in Configs
  /\ pc \in {"start", "skip", "profile", "email", "verified", "end"}
  /\ tokenName \in {"access_token", LinkedinTokenName}

---------------------------------------------------------------------------
(* What a request did, read off the events.                                *)

Sinks == SelectSeq(events, LAMBDA e : e.ev = "sink")
HttpCalls == SelectSeq(events, LAMBDA e : e.ev = "get")
VerifyCalls == SelectSeq(events, LAMBDA e : e.ev = "verify")
SkipCalls == SelectSeq(events, LAMBDA e : e.ev = "skipUserProfile")
DoneCalls == SelectSeq(events, LAMBDA e : e.ev = "done")

IsSink(e, name) == e.ev = "sink" /\ e.name = name
Finished == pc = "end"

\* The fields of a request as the specification reads them: a field of an
\* absent container is absent.
Field(r, place, key) ==
  IF r[place] = Undefined THEN Undefined
  ELSE IF key \in DOMAIN r[place].f THEN r[place].f[key] ELSE Undefined
NonEmpty(v) == v # Undefined /\ v # Str("")
HasErrorIndicator(r) == NonEmpty(Field(r, "query", "error"))
HasAccessToken(r) == \E place \in {"body", "query", "headers"} : NonEmpty(Field(r, place, "access_token"))

---------------------------------------------------------------------------
(* C1: one call of authenticate invokes exactly one sink, exactly once:    *)
(* never two sink calls, and never zero once the pipeline has finished.    *)
C1_ExactlyOneSink ==
  /\ Len(Sinks) <= 1
  /\ Finished => Len(Sinks) = 1

(* C2: whenever the gate reports an error to the driver (done called with  *)
(* a truthy err), authenticate invokes the error sink with that error, not *)
(* the fail sink, and the verify callback is not invoked.                  *)
C2_GateErrorToErrorSink ==
  \A i \in DOMAIN events :
    (events[i].ev = "done" /\ Truthy(Arg(events[i].args, 1))) =>
      /\ i < Len(events)
      /\ events[i + 1] = SinkEv("error", <<Arg(events[i].args, 1)>>)
      /\ \A j \in DOMAIN events : j > i => events[j].ev # "verify"

(* C3: a request whose query string carries a truthy error indicator       *)
(* fails with no reason payload, whatever tokens it carries, and neither   *)
(* the skip predicate, the HTTP capability nor verify is invoked.          *)
C3_DenialFails ==
  (HasErrorIndicator(req) /\ pc # "start") =>
    /\ events = <<SinkEv("fail", <<>>)>>
    /\ Finished
    /\ thrown = Undefined

C3_Witness ==
  /\ HasErrorIndicator(req)
  /\ Field(req, "body", "access_token") = Str("at-body")
  /\ Field(req, "query", "access_token") = Str("at-query")
  /\ Field(req, "headers", "refresh_token") = Str("rt-header")
  /\ Finished
  /\ Len(Sinks) = 1

\* The first non-empty value of a field among body, query, headers.
FirstNonEmpty(r, key) ==
  IF NonEmpty(Field(r, "body", key)) THEN Field(r, "body", key)
  ELSE IF NonEmpty(Field(r, "query", key)) THEN Field(r, "query", key)
  ELSE IF NonEmpty(Field(r, "headers", key)) THEN Field(r, "headers", key)
  ELSE Undefined

\* The accessToken and refreshToken arguments of a call of verify
VerifyTokens(args) == IF Len(args) = 5 THEN SubSeq(args, 2, 3) ELSE SubSeq(args, 1, 2)
\* The profile argument of a call of verify
VerifyProfile(args) == IF Len(args) = 5 THEN args[4] ELSE args[3]

(* C4: the accessToken handed to the gate (asynchronous skip predicate,    *)
(* profile and email get) and to verify is the first non-empty of          *)
(* body.access_token, query.access_token, headers.access_token; the        *)
(* refreshToken handed to verify is the first non-empty refresh_token by   *)
(* the same order, independently of where accessToken came from.           *)
C4_TokenPrecedence ==
  \A i \in DOMAIN events :
    LET e == events[i] IN
      /\ e.ev = "get" => e.token = FirstNonEmpty(req, "access_token")
      /\ (e.ev = "skipUserProfile" /\ e.args # <<>>) =>
            e.args[1] = FirstNonEmpty(req, "access_token")
      /\ e.ev = "verify" =>
            /\ VerifyTokens(e.args)[1] = FirstNonEmpty(req, "access_token")
            /\ VerifyTokens(e.args)[2] = FirstNonEmpty(req, "refresh_token")
            /\ NonEmpty(VerifyTokens(e.args)[1])

\* verify received a query-string access token although the header carries
\* one too, and a header refresh token although the access token is not
\* from there
C4_Witness ==
  /\ Field(req, "body", "access_token") = Str("")
  /\ Field(req, "query", "access_token") = Str("at-query")
  /\ Field(req, "headers", "access_token") = Str("at-header")
  /\ Field(req, "headers", "refresh_token") = Str("rt-header")
  /\ Len(VerifyCalls) = 1
  /\ VerifyTokens(VerifyCalls[1].args) = <<Str("at-query"), Str("rt-header")>>
  /\ Len(HttpCalls) = 2

(* C5: a request with no non-empty access token in body, query string or   *)
(* headers (each container present or absent) ends in Failure, with zero   *)
(* calls to the HTTP capability, the skip predicate and verify.            *)
C5_NoTokenFails ==
  (~HasAccessToken(req) /\ pc # "start") =>
    /\ Finished
    /\ Len(Sinks) = 1
    /\ IsSink(Sinks[1], "fail")
    /\ Len(HttpCalls) = 0
    /\ Len(SkipCalls) = 0
    /\ Len(VerifyCalls) = 0

(* C6: the email URL is requested only after the profile request called    *)
(* back without error; when the profile request calls back with a          *)
(* transport error, the email endpoint is never called, done receives the  *)
(* cause wrapped as 'failed to fetch user profile', and the outcome is     *)
(* Error.                                                                  *)
C6_ProfileErrorFailsFast ==
  \A i \in DOMAIN events :
    LET e == events[i] IN
      /\ (e.ev = "get" /\ e.url = EmailUrl) =>
            i > 1 /\ events[i - 1] = AnswerEv(ProfileUrl, Null)
      /\ (e.ev = "answer" /\ e.url = ProfileUrl /\ e.err # Null) =>
            LET wrapped == InternalOAuthError("failed to fetch user profile", e.err) IN
              /\ \A j \in DOMAIN events : ~(events[j].ev = "get" /\ events[j].url = EmailUrl)
              /\ DoneCalls = <<DoneEv(<<wrapped>>)>>
              /\ Sinks = <<SinkEv("error", <<wrapped>>)>>

(* C7: verified(err, user, info) maps to the sinks: err truthy ->           *)
(* error(err), whatever user is; err falsy and user falsy -> fail(info);   *)
(* err falsy and user truthy -> success(user, info); it calls no other     *)
(* sink.                                                                   *)
C7_VerifiedMapping ==
  \A i \in DOMAIN events :
    events[i].ev = "verified" =>
      LET err == Arg(events[i].args, 1)
          user == Arg(events[i].args, 2)
          info == Arg(events[i].args, 3)
      IN /\ i < Len(events)
         /\ Truthy(err) => events[i + 1] = SinkEv("error", <<err>>)
         /\ (~Truthy(err) /\ ~Truthy(user)) => events[i + 1] = SinkEv("fail", <<info>>)
         /\ (~Truthy(err) /\ Truthy(user)) => events[i + 1] = SinkEv("success", <<user, info>>)
         /\ i + 2 \in DOMAIN events => events[i + 2].ev # "sink"

\* verified was called with an error and a user, and the error sink got it
C7_Witness ==
  \E i \in DOMAIN events :
    /\ events[i] = VerifiedEv(<<AppError, User, Info>>)
    /\ i < Len(events)
    /\ events[i + 1] = SinkEv("error", <<AppError>>)

\* The gate was reached: authenticate resolved a token and went on
GateReached == pc # "start" /\ Truthy(accessToken) /\ thrown # TypeError

\* The skip decision was truthy: configured as true, returned by a
\* synchronous predicate, or called back by an asynchronous one.
SkipDecided ==
  \/ GateReached /\ cfg.skipUserProfile = Bool(TRUE)
  \/ \E i \in DOMAIN events :
       events[i].ev = "skipUserProfile" /\ events[i].args = <<>> /\ Truthy(events[i].returned)
  \/ \E i \in DOMAIN events :
       /\ events[i].ev = "skipAnswer"
       /\ ~Truthy(Arg(events[i].args, 1))
       /\ Truthy(Arg(events[i].args, 2))

Rank(e) ==
  CASE e.ev = "get" /\ e.url = ProfileUrl -> 1
    [] e.ev = "answer" /\ e.url = ProfileUrl -> 2
    [] e.ev = "get" /\ e.url = EmailUrl -> 3
    [] e.ev = "answer" /\ e.url = EmailUrl -> 4
    [] e.ev = "built" -> 5
    [] e.ev = "verify" -> 6
    [] e.ev = "sink" -> 7
    [] OTHER -> 0

(* C9: in a request that loads the profile the steps happen in this order, *)
(* each at most once and each only after the one before it: profile get,   *)
(* its answer, email get, its answer, normalization, verify, sink; verify  *)
(* receives the profile normalization produced.                            *)
C9_PipelineOrder ==
  Len(HttpCalls) > 0 =>
    /\ \A i, j \in DOMAIN events :
         (i < j /\ Rank(events[i]) > 0 /\ Rank(events[j]) > 0) =>
           /\ Rank(events[i]) <= Rank(events[j])
           /\ Rank(events[i]) < 7 => Rank(events[i]) < Rank(events[j])
    /\ \A j \in DOMAIN events :
         Rank(events[j]) \in 2..6 =>
           \E i \in DOMAIN events : i < j /\ Rank(events[i]) = Rank(events[j]) - 1
    /\ \A j \in DOMAIN events :
         events[j].ev = "verify" =>
           \E i \in DOMAIN events :
             i < j /\ events[i].ev = "built" /\ events[i].profile = VerifyProfile(events[j].args)

\* Both documents fetched, the profile built, verify called, success
C9_Witness ==
  /\ Len(HttpCalls) = 2
  /\ \E i \in DOMAIN events : events[i].ev = "built"
  /\ Len(VerifyCalls) = 1
  /\ VerifyProfile(VerifyCalls[1].args).t = "object"
  /\ Sinks = <<SinkEv("success", <<User, Undefined>>)>>
  /\ Finished

(* C10: success is invoked only by verified, called by a verify callback   *)
(* invoked earlier in the request, with a falsy err and a truthy user; the *)
(* denial, missing-token and gate-error paths never invoke success.        *)
C10_SuccessOnlyViaVerified ==
  /\ \A i \in DOMAIN events :
       IsSink(events[i], "success") =>
         /\ i > 2
         /\ events[i - 1].ev = "verified"
         /\ ~Truthy(Arg(events[i - 1].args, 1))
         /\ Truthy(Arg(events[i - 1].args, 2))
         /\ events[i].args = <<Arg(events[i - 1].args, 2), Arg(events[i - 1].args, 3)>>
         /\ \E j \in DOMAIN events : j < i - 1 /\ events[j].ev = "verify"
  /\ (HasErrorIndicator(req) \/ ~HasAccessToken(req)) =>
       \A i \in DOMAIN events : ~IsSink(events[i], "success")
  /\ \A i \in DOMAIN events :
       (events[i].ev = "done" /\ Truthy(Arg(events[i].args, 1))) =>
         (i < Len(events) /\ ~IsSink(events[i + 1], "success"))

\* success reached without any upstream call, verified called later
C10_Witness ==
  /\ Sinks = <<SinkEv("success", <<User, Info>>)>>
  /\ Len(HttpCalls) = 0
  /\ Len(VerifyCalls) = 1
  /\ Finished

---------------------------------------------------------------------------
(* The normalizer, read off the events: a "parsed" event followed by a     *)
(* "built" event is one application of it.                                 *)

Normalized(i) ==
  /\ i \in DOMAIN events
  /\ i < Len(events)
  /\ events[i].ev = "parsed"
  /\ events[i + 1].ev = "built"

Has(o, k) == o.t = "object" /\ k \in DOMAIN o.f

\* The address an email element resolves to, undefined when it has none
ResolvedAddress(el) ==
  IF Has(el, "handle~") /\ Has(el.f["handle~"], "emailAddress")
  THEN el.f["handle~"].f.emailAddress
  ELSE Undefined

(* C11: without an elements key in the email document the profile has no   *)
(* emails field; with an elements list, emails is present and holds, in    *)
(* source order, one {value: address} for exactly the elements carrying a  *)
(* 'handle~' with a non-empty emailAddress (so possibly none).             *)
C11_EmailNormalization ==
  \A i \in DOMAIN events :
    Normalized(i) =>
      LET emailJson == events[i].emailJson
          profile == events[i + 1].profile
      IN /\ ~Has(emailJson, "elements") => ~Has(profile, "emails")
         /\ Has(emailJson, "elements") =>
              LET kept == SelectSeq(emailJson.f.elements.a,
                                    LAMBDA el : NonEmpty(ResolvedAddress(el)))
              IN /\ Has(profile, "emails")
                 /\ profile.f.emails =
                      Arr([j \in 1..Len(kept) |-> Obj([value |-> ResolvedAddress(kept[j])])])

\* Two elements, the first without a resolved handle: emails holds the
\* address of the second only; and a list with none: emails is empty
C11_Witness ==
  \E i \in DOMAIN events :
    /\ Normalized(i)
    /\ Has(events[i].emailJson, "elements")
    /\ Len(events[i].emailJson.f.elements.a) = 2
    /\ ~Has(events[i].emailJson.f.elements.a[1], "handle~")
    /\ events[i + 1].profile.f.emails = Arr(<<Obj([value |-> Str("louise@example.com")])>>)

\* The picture structure yields no element: profilePicture, its
\* 'displayImage~' or the elements list is missing, or the list is empty
NoImageElement(profileJson) ==
  \/ ~Has(profileJson, "profilePicture")
  \/ ~Has(profileJson.f.profilePicture, "displayImage~")
  \/ ~Has(profileJson.f.profilePicture.f["displayImage~"], "elements")
  \/ profileJson.f.profilePicture.f["displayImage~"].f.elements.a = <<>>

(* C12: photos is absent from the normalized profile, not present and      *)
(* empty, whenever the profile document lacks profilePicture, or its       *)
(* 'displayImage~' wrapper, or the wrapper's elements list is absent or    *)
(* empty.                                                                  *)
C12_PhotosAbsent ==
  \A i \in DOMAIN events :
    (Normalized(i) /\ NoImageElement(events[i].profileJson)) =>
      ~Has(events[i + 1].profile, "photos")

\* A profile built from a picture structure whose elements list is empty
C12_Witness ==
  \E i \in DOMAIN events :
    /\ Normalized(i)
    /\ Has(events[i].profileJson, "profilePicture")
    /\ Has(events[i].profileJson.f.profilePicture, "displayImage~")
    /\ Has(events[i].profileJson.f.profilePicture.f["displayImage~"], "elements")
    /\ events[i].profileJson.f.profilePicture.f["displayImage~"].f.elements.a = <<>>
    /\ ~Has(events[i + 1].profile, "photos")

\* The key a localized name is looked up at, and whether it is there
PreferredKey(name) ==
  name.f.preferredLocale.f.language.s \o "_" \o name.f.preferredLocale.f.country.s
Localized(name) ==
  /\ Has(name, "localized")
  /\ Has(name, "preferredLocale")
  /\ PreferredKey(name) \in DOMAIN name.f.localized.f
WellFormedNames(profileJson) ==
  /\ Has(profileJson, "firstName") /\ Localized(profileJson.f.firstName)
  /\ Has(profileJson, "lastName") /\ Localized(profileJson.f.lastName)

\* The emails field claimed for an email document with an elements list
EmailsOf(emailJson) ==
  LET kept == SelectSeq(emailJson.f.elements.a, LAMBDA el : NonEmpty(ResolvedAddress(el)))
  IN Arr([j \in 1..Len(kept) |-> Obj([value |-> ResolvedAddress(kept[j])])])

\* verify threw in this request
VerifyThrew ==
  \/ thrown = VerifyThrown
  \/ \E i \in DOMAIN events : events[i] = DoneEv(<<VerifyThrown>>)

ImageElementsOf(profileJson) == profileJson.f.profilePicture.f["displayImage~"].f.elements.a
IdentifiersOf(el) == IF Has(el, "identifiers") THEN el.f.identifiers.a ELSE <<>>

(* C14 as stated: with a non-empty elements list, photos holds one         *)
(* {value: identifier} for each identifier entry of the first image        *)
(* element only, in order, and nothing from later elements.                *)
C14_PhotosOfFirstElement ==
  \A i \in DOMAIN events :
    (Normalized(i) /\ ~NoImageElement(events[i].profileJson)) =>
      LET ids == IdentifiersOf(ImageElementsOf(events[i].profileJson)[1])
      IN /\ Has(events[i + 1].profile, "photos")
         /\ events[i + 1].profile.f.photos =
              Arr([k \in 1..Len(ids) |-> Obj([value |-> ids[k].f.identifier])])

(* C14 as amended: with a non-empty elements list, photos holds, in        *)
(* element order, one {value: identifier} for the first identifier entry   *)
(* of every image element that has a non-empty identifiers list; further   *)
(* identifiers of an element and elements without identifiers contribute   *)
(* nothing.                                                                *)
C14_FirstPhotoOfEachElement ==
  \A i \in DOMAIN events :
    (Normalized(i) /\ ~NoImageElement(events[i].profileJson)) =>
      LET kept == SelectSeq(ImageElementsOf(events[i].profileJson),
                            LAMBDA el : IdentifiersOf(el) # <<>>)
      IN /\ Has(events[i + 1].profile, "photos")
         /\ events[i + 1].profile.f.photos =
              Arr([j \in 1..Len(kept) |-> Obj([value |-> IdentifiersOf(kept[j])[1].f.identifier])])

\* Two image elements of two identifiers each: photos holds the first
\* identifier of the one and of the other
C14_Witness ==
  \E i \in DOMAIN events :
    /\ Normalized(i)
    /\ ~NoImageElement(events[i].profileJson)
    /\ ImageElementsOf(events[i].profileJson) = <<ImageElement("100x100", 2), ImageElement("400x400", 2)>>
    /\ events[i + 1].profile.f.photos =
         Arr(<<Obj([value |-> Str("https://media.licdn.com/100x100/1")]),
               Obj([value |-> Str("https://media.licdn.com/400x400/1")])>>)

\* Both name structures are there, with a mapping and a preferred locale
NameStructures(profileJson) ==
  /\ Has(profileJson, "firstName")
  /\ Has(profileJson.f.firstName, "localized") /\ Has(profileJson.f.firstName, "preferredLocale")
  /\ Has(profileJson, "lastName")
  /\ Has(profileJson.f.lastName, "localized") /\ Has(profileJson.f.lastName, "preferredLocale")
MissingKey(name) == PreferredKey(name) \notin DOMAIN name.f.localized.f

ValueAtKey(name) ==
  IF MissingKey(name) THEN Undefined ELSE name.f.localized.f[PreferredKey(name)]
Text(v) == IF v = Undefined THEN "undefined" ELSE v.s

TakesCallback(c) == c.skipUserProfile \in {Fn(n) : n \in 2..3}
TakesNoCallback(c) == c.skipUserProfile \in {Fn(n) : n \in 0..1}
IsSetting(c) == c.skipUserProfile \in {Bool(FALSE), Bool(TRUE)}

\* The parts of C16 that do not depend on what a synchronous predicate is
\* called with: a predicate of two parameters is called with the token and
\* a callback, and no get is issued before that callback fires; a boolean
\* setting is used as it is, no predicate being called.
DispatchCommon ==
  GateReached =>
    /\ TakesCallback(cfg) =>
         /\ events[1].ev = "skipUserProfile"
         /\ Len(events[1].args) = 2
         /\ events[1].args[1] = accessToken
         /\ events[1].args[2].t = "function"
         /\ \A j \in DOMAIN events :
              events[j].ev = "get" => (j > 2 /\ events[2] = SkipAnswerEv(<<Null, Bool(FALSE)>>))
    /\ IsSetting(cfg) =>
         /\ Len(SkipCalls) = 0
         /\ cfg.skipUserProfile = Bool(FALSE) => events[1].ev = "get"
         /\ cfg.skipUserProfile = Bool(TRUE) => events[1] = DoneEv(<<Null>>)

(* C16 as stated: a predicate of two parameters is invoked as              *)
(* (accessToken, callback) and no fetch starts before its callback fires;  *)
(* a predicate of fewer than two parameters is invoked synchronously with  *)
(* the request's access token as its argument; a boolean or absent setting *)
(* is used directly.                                                       *)
C16_SyncPredicateGetsToken ==
  /\ DispatchCommon
  /\ (GateReached /\ TakesNoCallback(cfg)) =>
       /\ events[1].ev = "skipUserProfile"
       /\ events[1].args = <<accessToken>>
       /\ Len(events) > 1
       /\ events[2].ev = IF Truthy(events[1].returned) THEN "done" ELSE "get"

(* C16 as amended: the same, but a predicate of fewer than two parameters  *)
(* is invoked synchronously with no argument at all, so its skip decision  *)
(* cannot depend on the token.                                             *)
C16_SyncPredicateGetsNothing ==
  /\ DispatchCommon
  /\ (GateReached /\ TakesNoCallback(cfg)) =>
       /\ events[1].ev = "skipUserProfile"
       /\ events[1].args = <<>>
       /\ Len(events) > 1
       /\ events[2].ev = IF Truthy(events[1].returned) THEN "done" ELSE "get"

\* A predicate of one parameter, called without the body token the request
\* carries, has decided to skip and verify has run
C16_Witness ==
  /\ cfg.skipUserProfile = Fn(1)
  /\ accessToken = Str("at-body")
  /\ Finished
  /\ Len(VerifyCalls) = 1
  /\ events[1] = SkipEv(<<>>, Bool(TRUE))

\* verify answered with no error and no user
AppRejected ==
  \E i \in DOMAIN events :
    /\ events[i].ev = "verified"
    /\ ~Truthy(Arg(events[i].args, 1))
    /\ ~Truthy(Arg(events[i].args, 2))

\* Every sink call of the request is a call of fail
OnlyFail == \A i \in DOMAIN Sinks : IsSink(Sinks[i], "fail")

CallsAsAlone ==
  /\ Len(HttpCalls) <= 2
  /\ \A i \in DOMAIN HttpCalls :
       HttpCalls[i] = GetEv(IF i = 1 THEN ProfileUrl ELSE EmailUrl, accessToken, LinkedinTokenName)

(* C18 as stated: no step of a request's processing writes state shared    *)
(* across requests (the URLs, the token's wire parameter name on the HTTP  *)
(* capability) after construction, and under every interleaving with other *)
(* requests the request issues the same upstream calls as when alone.      *)
C18_NoSharedWrite ==
  /\ [][pc' # pc => tokenName' = tokenName]_vars
  /\ []CallsAsAlone

(* C18 as amended: a request that loads a profile does write shared state: *)
(* it sets the parameter name on the shared HTTP capability before its     *)
(* profile get.  The only value ever written is 'oauth2_access_token', so  *)
(* once a request has issued a get the name has that value for good, and   *)
(* under every interleaving with other requests the request issues the     *)
(* same upstream calls as when alone.                                      *)
C18_SharedWriteIsIdempotent ==
  /\ tokenName \in {"access_token", LinkedinTokenName}
  /\ Len(HttpCalls) > 0 => tokenName = LinkedinTokenName
  /\ CallsAsAlone
  /\ (GateReached /\ Finished /\ ~SkipDecided /\ Len(HttpCalls) = 0) =>
       \E i \in DOMAIN events : events[i].ev = "skipAnswer" /\ Truthy(Arg(events[i].args, 1))

\* Another request set the parameter name while this one, which has not
\* reached userProfile, is waiting for its skip predicate to call back
C18_Witness ==
  /\ pc = "skip"
  /\ Len(SkipCalls) = 1
  /\ Len(HttpCalls) = 0
  /\ tokenName = LinkedinTokenName

(* C19: one call of userProfile invokes its done callback exactly once for *)
(* every combination of upstream results, including when done, or the      *)
(* verify callback and sink it drives, throws synchronously while being    *)
(* called with the built profile; done is never called a second time with  *)
(* the thrown error.                                                       *)
C19_DoneExactlyOnce ==
  Len(HttpCalls) > 0 =>
    /\ Len(DoneCalls) <= 1
    /\ pc \in {"verified", "end"} => Len(DoneCalls) = 1
    /\ \A i \in DOMAIN DoneCalls : Arg(DoneCalls[i].args, 1) # VerifyThrown

(* C20: if every collaborator eventually responds (an asynchronous skip    *)
(* predicate calls back, each get calls back, verify eventually calls      *)
(* verified), every started request eventually reaches a terminal outcome  *)
(* via one sink call: the only way to stay without an outcome is a         *)
(* callback that never fires, so a request that awaits no callback any     *)
(* more has made its sink call.                                            *)
C20_EventuallyOutcome == Finished => Len(Sinks) >= 1

====
